---- MODULE Spec2Model ----
(***************************************************************************)
(* Inquiry-submission pipeline of the Presidential Chauffeurs API.         *)
(*                                                                         *)
(* The repository holds several server variants of the same pipeline.     *)
(* One behaviour of this model is one deployment: a server variant, its    *)
(* environment, and the requests it receives.                              *)
(*   "ctl"  src/src/routes/api.js (router + controller), with the          *)
(*          middleware of src/unnamed/part_002 and                         *)
(*          src/src/middleware/errorHandler.js                             *)
(*   "idx"  src/index.js                                                   *)
(*   "p4"   src/unnamed/part_004 (inline handler, emailSent flag)          *)
(*   "p6"   src/unnamed/part_006 (vehicle cache, reCAPTCHA cache)          *)
(*   "ss1"  src/simple-server.js, lines 61-340 (inline handler)            *)
(*   "ss2"  src/simple-server.js, lines 349-509                            *)
(* Handlers are async functions: an action runs a handler from one await   *)
(* to the next (request arrival, external verification returning, mail     *)
(* send returning).                                                        *)
(***************************************************************************)
EXTENDS Integers, Sequences, FiniteSets, TLC

VARIABLES server, env, workload, now, ticks, reqs,
          recaptchaCache, vehiclesCache, fileState, lastLoad,
          vehiclesData, startup, health, templateCache, composed

vars == <<server, env, workload, now, ticks, reqs,
          recaptchaCache, vehiclesCache, fileState, lastLoad,
          vehiclesData, startup, health, templateCache, composed>>

(***************************************************************************)
(* Bounds of the model.                                                    *)
(***************************************************************************)
\* requests a client sends to the caching server in one behaviour
MaxReqs == 2
\* clock advances in one behaviour
MaxTicks == 2
\* emails composed in one behaviour
MaxCompose == 2

(***************************************************************************)
(* Program constants.                                                      *)
(***************************************************************************)
CACHE_TTL == 3600000
RECAPTCHA_CACHE_TTL == 300000
CLEANUP_SIZE == 100
TEMPLATE_CACHE_TTL == 3600000
LONG_TOKEN_LENGTH == 1000
\* config.RECAPTCHA.SCORE_THRESHOLD, 0.5, in tenths
SCORE_THRESHOLD == 5
DayMs == 86400000

(***************************************************************************)
(* JavaScript values.  A value carries its type tag; strings are sequences *)
(* of one-character strings.  A date string "YYYY-MM-DD" is tagged "date"  *)
(* and carries its day number; a token carries its name and its length.    *)
(***************************************************************************)
Undef == [t |-> "undef", s |-> <<>>, n |-> 0]
Str(chars) == [t |-> "str", s |-> chars, n |-> 0]
Num(k) == [t |-> "num", s |-> <<>>, n |-> k]
DateStr(day) == [t |-> "date", s |-> <<>>, n |-> day]
Token(name, length) == [t |-> "tok", s |-> <<name>>, n |-> length]

TESTING_TOKEN == Token("TESTING_TOKEN", 13)

\* !v
Falsy(v) ==
  \/ v.t = "undef"
  \/ v.t = "str" /\ v.s = <<>>
  \/ v.t = "num" /\ v.n = 0

IsSpace(c) == c = " "

RECURSIVE TrimLeft(_)
TrimLeft(chars) ==
  IF chars # <<>> /\ IsSpace(Head(chars)) THEN TrimLeft(Tail(chars)) ELSE chars

RECURSIVE TrimRight(_)
TrimRight(chars) ==
  IF chars # <<>> /\ IsSpace(chars[Len(chars)])
  THEN TrimRight(SubSeq(chars, 1, Len(chars) - 1))
  ELSE chars

\* String.prototype.trim
Trim(chars) == TrimRight(TrimLeft(chars))

\* !v || !v.trim(), for a string or an absent value
Blank(v) == Falsy(v) \/ (v.t = "str" /\ Trim(v.s) = <<>>)

\* token.length
TokenLength(v) == IF v.t = "tok" THEN v.n ELSE Len(v.s)

\* one character of the class [^\s@]
PlainChar(c) == ~IsSpace(c) /\ c # "@"

\* /^[^\s@]+@[^\s@]+\.[^\s@]+$/.test(email)
emailRegexTest_noDot(v) ==
  /\ v.t = "str"
  /\ \E i \in 2..(Len(v.s) - 1) :
        /\ v.s[i] = "@"
        /\ \A k \in (1..Len(v.s)) \ {i} : PlainChar(v.s[k])

emailRegexTest(v) ==
  /\ v.t = "str"
  /\ \E i \in 2..Len(v.s), j \in 3..Len(v.s) :
        /\ v.s[i] = "@"
        /\ j >= i + 2
        /\ j <= Len(v.s) - 1
        /\ v.s[j] = "."
        /\ \A k \in (1..Len(v.s)) \ {i} : PlainChar(v.s[k])

(***************************************************************************)
(* Dates.  A time is a number of milliseconds; NaN is the invalid date.   *)
(***************************************************************************)
NaN == [nan |-> TRUE, ms |-> 0]
Time(ms) == [nan |-> FALSE, ms |-> ms]

\* new Date(date): a date-only string is UTC midnight of its day
NewDate(v) == IF v.t = "date" THEN Time(v.n * DayMs) ELSE NaN

\* new Date(); setHours(0, 0, 0, 0): local midnight, tz = local - UTC
LocalMidnight(clock, tz) == Time((((clock + tz) \div DayMs) * DayMs) - tz)

\* a < b on dates: any comparison with NaN is false
DateLess(a, b) == ~a.nan /\ ~b.nan /\ a.ms < b.ms

\* selectedDate < currentDate
IsPast(v, clock, tz) == DateLess(NewDate(v), LocalMidnight(clock, tz))

(***************************************************************************)
(* The vehicle catalog.                                                    *)
(***************************************************************************)
vehicles == << [id |-> 1, name |-> "Rolls-Royce Phantom"],
               [id |-> 2, name |-> "Bentley Mulsanne"],
               [id |-> 3, name |-> "Mercedes-Maybach S-Class"] >>

Digits == <<"0", "1", "2", "3", "4", "5", "6", "7", "8", "9">>
IsDigit(c) == \E d \in 1..10 : Digits[d] = c
DigitVal(c) == (CHOOSE d \in 1..10 : Digits[d] = c) - 1

RECURSIVE LeadingDigits(_)
LeadingDigits(chars) ==
  IF chars # <<>> /\ IsDigit(Head(chars))
  THEN <<Head(chars)>> \o LeadingDigits(Tail(chars))
  ELSE <<>>

RECURSIVE DigitsValue(_)
DigitsValue(chars) ==
  IF chars = <<>> THEN 0
  ELSE DigitsValue(SubSeq(chars, 1, Len(chars) - 1)) * 10
         + DigitVal(chars[Len(chars)])

\* parseInt(v, 10): leading whitespace skipped, then the leading digits
ParseInt(v) ==
  IF v.t = "num" THEN Time(v.n)
  ELSE IF v.t = "str" /\ LeadingDigits(TrimLeft(v.s)) # <<>>
       THEN Time(DigitsValue(LeadingDigits(TrimLeft(v.s))))
       ELSE NaN

\* vehicles.find(v => v.id === k); 0 when there is none
FindById(k) ==
  IF ~k.nan /\ \E i \in 1..Len(vehicles) : vehicles[i].id = k.ms
  THEN k.ms
  ELSE 0

\* typeof vehicleId === 'string' ? parseInt(vehicleId, 10) : vehicleId
findVehicle(vehicleId) ==
  IF vehicleId.t = "str" THEN FindById(ParseInt(vehicleId))
  ELSE IF vehicleId.t = "num" THEN FindById(Time(vehicleId.n))
  ELSE 0

\* vehicles.find(v => v.id === parseInt(vehicleId))
findVehicleInline(vehicleId) == FindById(ParseInt(vehicleId))

(***************************************************************************)
(* Environment.  NODE_ENV "unset" is an absent process.env.NODE_ENV.       *)
(***************************************************************************)
Modes == {"production", "development", "test", "unset"}

\* config.isDevelopment()
isDevelopment(e) == e.NODE_ENV = "development"

\* config.isProduction()
isProduction(e) == e.NODE_ENV = "production"

\* process.env.NODE_ENV === 'development' || process.env.NODE_ENV === 'test'
DevOrTest(e) == e.NODE_ENV \in {"development", "test"}

(***************************************************************************)
(* Field validation.  A validation result is the error thrown or answered *)
(* (status, message), or ok; warned records the logged warning.            *)
(***************************************************************************)
Valid(warned) == [ok |-> TRUE, status |-> 0, message |-> "", warned |-> warned]
Invalid(status, message) ==
  [ok |-> FALSE, status |-> status, message |-> message, warned |-> FALSE]

\* validateInquiryData of the inquiry controller
validateInquiryData_lenientOutsideProduction(data, e, clock) ==
  IF Falsy(data.vehicleId) THEN Invalid(400, "Vehicle ID is required")
  ELSE IF Blank(data.purpose) THEN Invalid(400, "Purpose is required")
  ELSE IF Falsy(data.date) THEN Invalid(400, "Date is required")
  ELSE IF Blank(data.email) THEN Invalid(400, "Email is required")
  ELSE IF ~emailRegexTest(data.email) THEN Invalid(400, "Invalid email format")
  ELSE IF NewDate(data.date).nan THEN Invalid(400, "Invalid date format")
  ELSE IF IsPast(data.date, clock, e.tz) /\ isProduction(e)
       THEN Invalid(400, "Date must be in the future")
  ELSE Valid(IsPast(data.date, clock, e.tz))

validateInquiryData(data, e, clock) ==
  IF Falsy(data.vehicleId) THEN Invalid(400, "Vehicle ID is required")
  ELSE IF Blank(data.purpose) THEN Invalid(400, "Purpose is required")
  ELSE IF Falsy(data.date) THEN Invalid(400, "Date is required")
  ELSE IF Blank(data.email) THEN Invalid(400, "Email is required")
  ELSE IF ~emailRegexTest(data.email) THEN Invalid(400, "Invalid email format")
  ELSE IF NewDate(data.date).nan THEN Invalid(400, "Invalid date format")
  ELSE IF IsPast(data.date, clock, e.tz) /\ ~isDevelopment(e)
       THEN Invalid(400, "Date must be in the future")
  ELSE Valid(IsPast(data.date, clock, e.tz))

\* the field checks of the handlers of index.js, part_006 and simple-server.js
validateIndex(data, e, clock) ==
  IF \/ Falsy(data.vehicleName) \/ Falsy(data.purpose) \/ Falsy(data.date)
     \/ Falsy(data.email) \/ Falsy(data.description)
  THEN Invalid(400, "All fields are required")
  ELSE IF IsPast(data.date, clock, e.tz)
       THEN Invalid(400, "Date must be in the future")
  ELSE IF ~emailRegexTest(data.email) THEN Invalid(400, "Invalid email format")
  ELSE Valid(FALSE)

\* the field checks of the inline handler of part_004
validateInline(data) ==
  IF \/ Falsy(data.vehicleId) \/ Falsy(data.purpose) \/ Falsy(data.date)
     \/ Falsy(data.email)
  THEN Invalid(400, "Missing required fields")
  ELSE IF ~emailRegexTest(data.email) THEN Invalid(400, "Invalid email format")
  ELSE Valid(FALSE)

(***************************************************************************)
(* Requests.  pc is the await the handler is suspended at, or "done" once  *)
(* the response is written.  The other fields record what the handler did. *)
(***************************************************************************)
\* after: the earlier requests whose verification was over at arrival
NewRequest(body, clock) ==
  [ body |-> body, t0 |-> clock, pc |-> "start",
    after |-> {i \in 1..Len(reqs) : reqs[i].pc # "verifying"},
    status |-> 0, message |-> "", success |-> "absent", emailSent |-> "absent",
    responses |-> 0, exposed |-> {},
    gate |-> "pending", handlerRan |-> FALSE, ranAt |-> 0,
    validated |-> FALSE,
    warned |-> FALSE, vehicle |-> 0,
    verifyCalled |-> FALSE, extCalls |-> 0, extResult |-> "none",
    ext |-> [kind |-> "none", success |-> FALSE, hasScore |-> FALSE,
             score |-> 0, action |-> ""],
    verdict |-> "none", cacheHit |-> FALSE, servedAge |-> 0,
    foundStale |-> FALSE,
    mailCalls |-> 0, mailResult |-> "none" ]

\* res.status(status).json({ error | message, success?, emailSent? })
Respond(r, status, message, success, emailSent) ==
  [r EXCEPT !.pc = "done", !.status = status, !.message = message,
            !.success = success, !.emailSent = emailSent,
            !.responses = @ + 1]

\* errorHandler: err.statusCode || 500, err.message.  statusCode 0 is an
\* exception without statusCode, whose message is the exception's own; the
\* ApiError with statusCode 500 carries the cause in its details.  exposed
\* is the internal detail the response body carries.
errorHandler(r, statusCode, message) ==
  [Respond(r, IF statusCode = 0 THEN 500 ELSE statusCode, message,
           "absent", "absent")
     EXCEPT !.exposed = (IF statusCode = 0 THEN {"message"} ELSE {})
                        \cup (IF statusCode = 500 THEN {"cause"} ELSE {})
                        \cup (IF isDevelopment(env) THEN {"stack"} ELSE {})]

\* await of the mail send
AwaitMail(r) == [r EXCEPT !.pc = "sending", !.mailCalls = @ + 1]

\* await of the external verification call
AwaitVerify(r) == [r EXCEPT !.pc = "verifying", !.extCalls = @ + 1]

(***************************************************************************)
(* Inquiry handlers: the synchronous run from the handler's entry to its   *)
(* first await or to its response.                                         *)
(***************************************************************************)
\* submitInquiry of the inquiry controller, up to the mail send
submitInquiry_dateParsedBeforeEmail(r0) ==
  LET r == [r0 EXCEPT !.handlerRan = TRUE, !.ranAt = now]
      v == IF /\ ~Falsy(r.body.vehicleId) /\ ~Blank(r.body.purpose)
              /\ ~Falsy(r.body.date) /\ NewDate(r.body.date).nan
           THEN Invalid(400, "Invalid date format")
           ELSE validateInquiryData(r.body, env, now)
      found == findVehicle(r.body.vehicleId)
  IN IF ~v.ok THEN errorHandler(r, v.status, v.message)
     ELSE IF found = 0
          THEN errorHandler([r EXCEPT !.validated = TRUE, !.warned = v.warned],
                            404, "Vehicle with ID <vehicleId> not found")
     ELSE AwaitMail([r EXCEPT !.validated = TRUE, !.warned = v.warned,
                              !.vehicle = found])

submitInquiry(r0) ==
  LET r == [r0 EXCEPT !.handlerRan = TRUE, !.ranAt = now]
      v == validateInquiryData(r.body, env, now)
      found == findVehicle(r.body.vehicleId)
  IN IF ~v.ok THEN errorHandler(r, v.status, v.message)
     ELSE IF found = 0
          THEN errorHandler([r EXCEPT !.validated = TRUE, !.warned = v.warned],
                            404, "Vehicle with ID <vehicleId> not found")
     ELSE AwaitMail([r EXCEPT !.validated = TRUE, !.warned = v.warned,
                              !.vehicle = found])

\* the handler behind the middleware in index.js, part_006, simple-server.js
indexHandler(r0) ==
  LET r == [r0 EXCEPT !.handlerRan = TRUE, !.ranAt = now]
      v == validateIndex(r.body, env, now)
  IN IF ~v.ok THEN Respond(r, v.status, v.message, "absent", "absent")
     ELSE AwaitMail([r EXCEPT !.validated = TRUE])

\* Proceed to the inquiry handler: next()
NextHandler(r, why) ==
  IF server = "ctl" THEN submitInquiry([r EXCEPT !.gate = why])
  ELSE indexHandler([r EXCEPT !.gate = why])

\* part_004, from the mail send on: the send is skipped without transporter
inlineMailStage(r) ==
  IF env.EMAIL THEN AwaitMail(r)
  ELSE Respond(r, 200, "Inquiry received successfully", "true", "false")

(***************************************************************************)
(* The verification gate: reCAPTCHA middleware and verifyRecaptcha.        *)
(* An outcome of the external call is a response body or a network error.  *)
(***************************************************************************)
ExtResponse(success, hasScore, score, action) ==
  [kind |-> "response", success |-> success, hasScore |-> hasScore,
   score |-> score, action |-> action]
ExtError == [kind |-> "error", success |-> FALSE, hasScore |-> FALSE,
             score |-> 0, action |-> ""]

ExternalOutcomes ==
  { ExtResponse(TRUE, FALSE, 0, ""),
    ExtResponse(TRUE, TRUE, 9, "vehicleInquiry"),
    ExtResponse(TRUE, TRUE, 3, "vehicleInquiry"),
    ExtResponse(TRUE, TRUE, 9, "homepage"),
    ExtResponse(FALSE, FALSE, 0, ""),
    ExtError }

\* the outcomes a workload draws from: every kind at the gate, the three
\* verdicts (success, failure, network error) where the caches are
\* exercised, failure for the unused tokens of a flood
Outcomes(w) ==
  IF w \in {"fields", "gate"} THEN ExternalOutcomes
  ELSE IF w = "flood" THEN { ExtResponse(FALSE, FALSE, 0, "") }
  ELSE { ExtResponse(TRUE, FALSE, 0, ""), ExtResponse(FALSE, FALSE, 0, ""),
         ExtError }

ExtResultOf(out) ==
  IF out.kind = "error" THEN "error"
  ELSE IF out.success THEN "ok" ELSE "fail"

GateReject(r, status, message) ==
  IF server = "ctl" THEN errorHandler([r EXCEPT !.gate = "rejected"], status, message)
  ELSE Respond([r EXCEPT !.gate = "rejected"], status, message, "absent", "absent")

\* if (!token) return 400 'reCAPTCHA token is required'
tokenMissing_onlyEmptyString(token) == token.t = "str" /\ token.s = <<>>

tokenMissing(token) == Falsy(token)

\* index.js: recaptchaMiddleware with the synchronous part of verifyRecaptcha
recaptchaMiddleware_idx(r) ==
  LET token == r.body.captchaToken
  IN IF DevOrTest(env) THEN NextHandler(r, "devmode")
     ELSE IF token = TESTING_TOKEN /\ env.ALLOW_TEST_TOKEN
          THEN NextHandler(r, "testtoken")
     ELSE IF tokenMissing(token)
          THEN GateReject(r, 400, "reCAPTCHA token is required")
     ELSE IF env.BYPASS_RECAPTCHA THEN NextHandler(r, "bypass")
     ELSE IF ~env.RECAPTCHA_SECRET
          THEN GateReject([r EXCEPT !.verifyCalled = TRUE],
                          400, "reCAPTCHA verification failed")
     ELSE IF TokenLength(token) > LONG_TOKEN_LENGTH
          THEN NextHandler([r EXCEPT !.verifyCalled = TRUE], "longtoken")
     ELSE AwaitVerify([r EXCEPT !.verifyCalled = TRUE])

\* index.js: the external call returned
verified_idx_failOpen(r, out) ==
  IF out.kind = "response"
  THEN NextHandler(r, "verified")
  ELSE GateReject(r, 400, "reCAPTCHA verification failed")

verified_idx(r, out) ==
  IF out.kind = "response" /\ out.success
  THEN NextHandler(r, "verified")
  ELSE GateReject(r, 400, "reCAPTCHA verification failed")

\* simple-server.js: recaptchaMiddleware
recaptchaMiddleware_ss2(r) ==
  LET token == r.body.captchaToken
  IN IF DevOrTest(env) THEN NextHandler(r, "devmode")
     ELSE IF token = TESTING_TOKEN THEN NextHandler(r, "testtoken")
     ELSE IF tokenMissing(token)
          THEN GateReject(r, 400, "reCAPTCHA token is required")
     ELSE AwaitVerify([r EXCEPT !.verifyCalled = TRUE])

\* part_002: recaptchaMiddleware('vehicleInquiry')
recaptchaMiddleware_ctl(r) ==
  LET token == r.body.captchaToken
  IN IF isDevelopment(env) /\ token = TESTING_TOKEN
     THEN NextHandler(r, "testtoken")
     ELSE IF tokenMissing(token)
          THEN GateReject(r, 400, "reCAPTCHA token is required")
     ELSE AwaitVerify([r EXCEPT !.verifyCalled = TRUE])

\* result.score !== undefined && result.score < SCORE_THRESHOLD; in
\* simple-server.js response.data.score < 0.5, false for an absent score
scoreTooLow(out) == out.hasScore /\ out.score < SCORE_THRESHOLD

\* expectedAction && result.action && result.action !== expectedAction;
\* "" is an absent action or no expected action
actionMismatch_noExpected(out, expectedAction) ==
  expectedAction # "" /\ out.action # "" /\ out.action # out.action

actionMismatch(out, expectedAction) ==
  expectedAction # "" /\ out.action # "" /\ out.action # expectedAction

\* part_002: the external call returned; expectedAction is 'vehicleInquiry'
verified_ctl(r, out) ==
  IF out.kind = "error"
  THEN GateReject(r, 500, "Failed to verify reCAPTCHA")
  ELSE IF ~out.success
       THEN GateReject(r, 400, "reCAPTCHA verification failed")
  ELSE IF scoreTooLow(out)
       THEN GateReject(r, 400, "reCAPTCHA score too low, possible bot activity")
  ELSE IF actionMismatch(out, "vehicleInquiry")
       THEN GateReject(r, 400, "reCAPTCHA action mismatch")
  ELSE NextHandler(r, "verified")

\* part_006: a cache entry is served while its age is below the TTL
cacheFresh_anyAge(entry, clock) == TRUE

cacheFresh(entry, clock) == clock - entry.timestamp < RECAPTCHA_CACHE_TTL

\* part_006: what the middleware does with the verdict of verifyRecaptcha
verdict_p6(r0, isValid, why) ==
  LET r == [r0 EXCEPT !.verdict = IF isValid THEN "true" ELSE "false"]
  IN IF isValid THEN NextHandler(r, why)
     ELSE IF env.ALLOW_ON_ERROR THEN NextHandler(r, "allowOnError")
     ELSE GateReject(r, 400, "reCAPTCHA verification failed")

\* part_006: recaptchaMiddleware with the synchronous part of verifyRecaptcha
recaptchaMiddleware_p6(r) ==
  LET token == r.body.captchaToken
  IN IF DevOrTest(env) THEN NextHandler(r, "devmode")
     ELSE IF env.BYPASS_RECAPTCHA THEN NextHandler(r, "bypass")
     ELSE IF token = TESTING_TOKEN /\ env.ALLOW_TEST_TOKEN
          THEN NextHandler(r, "testtoken")
     ELSE IF tokenMissing(token)
          THEN GateReject(r, 400, "reCAPTCHA token is required")
     ELSE IF ~env.RECAPTCHA_SECRET
          THEN verdict_p6([r EXCEPT !.verifyCalled = TRUE], FALSE, "verified")
     ELSE IF token \in DOMAIN recaptchaCache
          THEN IF cacheFresh(recaptchaCache[token], now)
               THEN verdict_p6([r EXCEPT !.verifyCalled = TRUE,
                                  !.cacheHit = TRUE,
                                  !.servedAge = now - recaptchaCache[token].timestamp],
                               recaptchaCache[token].valid, "cached")
               ELSE AwaitVerify([r EXCEPT !.verifyCalled = TRUE,
                                          !.foundStale = TRUE])
     ELSE AwaitVerify([r EXCEPT !.verifyCalled = TRUE])

\* part_006: the cache after the lookup of verifyRecaptcha
cacheAfterLookup(r) ==
  LET token == r.body.captchaToken
  IN IF /\ server = "p6" /\ r.verifyCalled /\ env.RECAPTCHA_SECRET
        /\ token \in DOMAIN recaptchaCache
        /\ ~cacheFresh(recaptchaCache[token], now)
     THEN [k \in (DOMAIN recaptchaCache) \ {token} |-> recaptchaCache[k]]
     ELSE recaptchaCache

\* part_006: the entry recaptchaCache.set stores
cacheEntry_alwaysValid(isValid, clock) == [valid |-> TRUE, timestamp |-> clock]

cacheEntry(isValid, clock) == [valid |-> isValid, timestamp |-> clock]

\* part_006: recaptchaCache.set, then the cleanup of expired entries
cacheAfterStore_onlyValid(token, isValid) ==
  IF isValid
  THEN [k \in (DOMAIN recaptchaCache) \cup {token} |->
          IF k = token THEN cacheEntry(isValid, now)
          ELSE recaptchaCache[k]]
  ELSE recaptchaCache

cacheAfterStore(token, isValid) ==
  LET stored == [k \in (DOMAIN recaptchaCache) \cup {token} |->
                   IF k = token THEN cacheEntry(isValid, now)
                   ELSE recaptchaCache[k]]
      kept == {k \in DOMAIN stored : ~(now - stored[k].timestamp > RECAPTCHA_CACHE_TTL)}
  IN IF Cardinality(DOMAIN stored) > CLEANUP_SIZE
     THEN [k \in kept |-> stored[k]]
     ELSE stored

\* part_006: the cache when the external call of verifyRecaptcha returns;
\* a network error goes to the catch block, which stores nothing
cacheAfterReturn_storesOnError(token, out) ==
  IF server = "p6"
  THEN cacheAfterStore(token, out.kind = "response" /\ out.success)
  ELSE recaptchaCache

cacheAfterReturn(token, out) ==
  IF server = "p6" /\ out.kind = "response"
  THEN cacheAfterStore(token, out.success)
  ELSE recaptchaCache

\* part_006: the external call returned
verified_p6(r, out) ==
  verdict_p6(r, out.kind = "response" /\ out.success, "verified")

\* part_004: the handler up to its first await
inquiry_p4(r0) ==
  LET r == [r0 EXCEPT !.handlerRan = TRUE, !.ranAt = now]
      v == validateInline(r.body)
      found == findVehicleInline(r.body.vehicleId)
      token == r.body.captchaToken
      rv == [r EXCEPT !.validated = TRUE, !.vehicle = found]
  IN IF ~v.ok THEN Respond(r, v.status, v.message, "false", "absent")
     ELSE IF found = 0
          THEN Respond([r EXCEPT !.validated = TRUE], 404, "Vehicle not found",
                       "false", "absent")
     ELSE IF ~Falsy(token) /\ env.RECAPTCHA_SECRET /\ isProduction(env)
          THEN IF token # TESTING_TOKEN
               THEN AwaitVerify([rv EXCEPT !.verifyCalled = TRUE])
               ELSE inlineMailStage([rv EXCEPT !.gate = "testtoken"])
     ELSE inlineMailStage([rv EXCEPT !.gate = "none"])

\* part_004: the external call returned
verified_p4_mailOnRejection(r, out) ==
  IF out.kind = "response" /\ ~out.success
  THEN inlineMailStage([r EXCEPT !.gate = "rejected"])
  ELSE inlineMailStage([r EXCEPT !.gate =
                          IF out.kind = "error" THEN "errorIgnored" ELSE "verified"])

verified_p4(r, out) ==
  IF out.kind = "response" /\ ~out.success
  THEN Respond([r EXCEPT !.gate = "rejected"], 400, "CAPTCHA verification failed",
               "false", "absent")
  ELSE inlineMailStage([r EXCEPT !.gate =
                          IF out.kind = "error" THEN "errorIgnored" ELSE "verified"])

\* simple-server.js, inline handler: the field checks, after the lookup
validateSimple(data) ==
  IF \/ findVehicle(data.vehicleId) = 0 \/ Falsy(data.purpose)
     \/ Falsy(data.date) \/ Falsy(data.email)
  THEN Invalid(400, "Missing required fields")
  ELSE IF ~emailRegexTest(data.email) THEN Invalid(400, "Invalid email format")
  ELSE Valid(FALSE)

\* simple-server.js, inline handler, up to its first await
inquiry_ss1(r0) ==
  LET r == [r0 EXCEPT !.handlerRan = TRUE, !.ranAt = now]
      v == validateSimple(r.body)
      token == r.body.captchaToken
      rv == [r EXCEPT !.validated = TRUE,
                      !.vehicle = findVehicle(r.body.vehicleId)]
  IN IF ~v.ok THEN Respond(r, v.status, v.message, "absent", "absent")
     ELSE IF ~isDevelopment(env) /\ token # TESTING_TOKEN /\ ~Falsy(token)
          THEN AwaitVerify([rv EXCEPT !.verifyCalled = TRUE])
     ELSE AwaitMail([rv EXCEPT !.gate = "none"])

\* simple-server.js, inline handler: the external call returned
verified_ss1(r, out) ==
  IF out.kind = "error"
  THEN Respond([r EXCEPT !.gate = "rejected"], 500, "Error verifying CAPTCHA",
               "absent", "absent")
  ELSE IF ~out.success
       THEN Respond([r EXCEPT !.gate = "rejected"], 400,
                    "CAPTCHA verification failed", "absent", "absent")
  ELSE IF scoreTooLow(out)
       THEN Respond([r EXCEPT !.gate = "rejected"], 400,
                    "CAPTCHA score too low, possible bot activity",
                    "absent", "absent")
  ELSE IF actionMismatch(out, "vehicleInquiry")
       THEN Respond([r EXCEPT !.gate = "rejected"], 400,
                    "CAPTCHA action mismatch", "absent", "absent")
  ELSE AwaitMail([r EXCEPT !.gate = "verified"])

(***************************************************************************)
(* The mail send returned.                                                 *)
(***************************************************************************)
\* part_004: emailSent reflects the outcome, the request succeeds
mailed_p4(r, sent) ==
  Respond(r, 200, "Inquiry received successfully", "true",
          IF sent THEN "true" ELSE "false")

\* inquiry controller: a rejected send goes to next(error)
mailed_ctl(r, sent) ==
  IF sent THEN Respond(r, 200, "Inquiry sent successfully", "true", "absent")
  ELSE errorHandler(r, 0, "<message of the mail error>")

\* index.js and part_006 (inner catch), simple-server.js (outer catch)
mailed_idx_noReturnInCatch(r, sent) ==
  IF sent THEN Respond(r, 200, "Inquiry sent successfully", "absent", "absent")
  ELSE Respond(Respond(r, 500, "Failed to send email", "absent", "absent"),
               200, "Inquiry sent successfully", "absent", "absent")

mailed_idx(r, sent) ==
  IF sent THEN Respond(r, 200, "Inquiry sent successfully", "absent", "absent")
  ELSE IF server = "ss2"
       THEN Respond(r, 500, "Failed to process inquiry", "absent", "absent")
  ELSE [Respond(r, 500, "Failed to send email", "absent", "absent")
          EXCEPT !.exposed = IF env.NODE_ENV = "development"
                             THEN {"message"} ELSE {}]

\* simple-server.js, inline handler
mailed_ss1(r, sent) ==
  IF sent THEN Respond(r, 200, "Inquiry sent successfully", "absent", "absent")
  ELSE Respond(r, 500, "Error sending inquiry email", "absent", "absent")

(***************************************************************************)
(* part_006: loadVehiclesData.  The data file is static: present and       *)
(* parsable ("ok", possibly the empty list "empty"), missing or corrupt.   *)
(***************************************************************************)
FileStates == {"ok", "empty", "missing", "corrupt"}

FileData(f) == IF f = "ok" THEN vehicles ELSE <<>>

\* the cached copy is used while it is non-empty and younger than the TTL
vehiclesFresh_anyAge(cache, clock) == Len(cache.data) > 0

vehiclesFresh(cache, clock) ==
  Len(cache.data) > 0 /\ (clock - cache.lastUpdated) < CACHE_TTL

\* index.js: the load at module start.  The try block catches the failed
\* read; threw says the load let an exception escape.
loadAtStart_noCatch(f) ==
  [data |-> FileData(f), threw |-> f = "corrupt", errorLogged |-> f = "missing"]

loadAtStart(f) ==
  [data |-> FileData(f), threw |-> FALSE,
   errorLogged |-> f \in {"missing", "corrupt"}]

\* GET /health
healthCheck(data) == [status |-> 200, vehiclesLoaded |-> Len(data) > 0]

\* the cache after loadVehiclesData
vehiclesCacheAfterLoad(cache, f, clock) ==
  IF vehiclesFresh(cache, clock) THEN cache
  ELSE IF f \in {"ok", "empty"}
       THEN [data |-> FileData(f), lastUpdated |-> clock]
  ELSE cache

\* what loadVehiclesData returned and did
loadVehiclesData(cache, f, clock) ==
  IF vehiclesFresh(cache, clock)
  THEN [data |-> cache.data, fromCache |-> TRUE,
        age |-> clock - cache.lastUpdated, foundStale |-> FALSE, reads |-> 0,
        threw |-> FALSE, errorLogged |-> FALSE]
  ELSE [data |-> FileData(f), fromCache |-> FALSE, age |-> 0,
        foundStale |-> Len(cache.data) > 0,
        reads |-> IF f = "missing" THEN 0 ELSE 1,
        threw |-> FALSE, errorLogged |-> f \in {"missing", "corrupt"}]

NoLoad == [data |-> <<>>, fromCache |-> FALSE, age |-> 0,
           foundStale |-> FALSE, reads |-> 0,
           threw |-> FALSE, errorLogged |-> FALSE]

\* the catalog load of the server at module start: part_006 calls
\* loadVehiclesData, index.js reads the file inline, the other servers
\* carry the catalog in their code
startupLoad(sv, f, clock) ==
  IF sv = "p6"
  THEN loadVehiclesData([data |-> <<>>, lastUpdated |-> 0], f, clock)
  ELSE IF sv = "idx" THEN loadAtStart(f)
  ELSE [data |-> vehicles, threw |-> FALSE, errorLogged |-> FALSE]

(***************************************************************************)
(* The email composers.  A text is a sequence of tokens: the literals of   *)
(* the template, placeholders, and the characters of the values.           *)
(***************************************************************************)
\* a value interpolated into a template literal or used as a replacement
ValueText(v) ==
  IF v.t = "undef" THEN <<"undefined">>
  ELSE IF v.t = "num" THEN <<ToString(v.n)>>
  ELSE v.s

\* new Date().getFullYear()
Year(clock) == 1970 + (clock \div DayMs) \div 365

\* new Date(date).toLocaleDateString('en-US', { weekday: 'long', ... })
FormatDate(v) == <<"long date of">> \o ValueText(v)

\* html.replace(/\{\{name\}\}/g, text)
RECURSIVE ReplaceAll(_, _, _)
ReplaceAll(html, placeholder, text) ==
  IF html = <<>> THEN <<>>
  ELSE (IF Head(html) = placeholder THEN text ELSE <<Head(html)>>)
         \o ReplaceAll(Tail(html), placeholder, text)

\* utils/email.js: the template with its placeholders
htmlTemplate ==
  << "New Service Inquiry", "{{vehicleName}}",
     "Purpose:", "{{purpose}}",
     "Requested Date:", "{{date}}",
     "Customer Email:", "{{email}}",
     "Additional Details:", "{{description}}",
     "mailto:", "{{email}}", "Re: Inquiry for", "{{vehicleName}}",
     "service", "{{vehicleName}}", "for", "{{purpose}}", "on", "{{date}}",
     "copyright", "{{currentYear}}" >>

\* utils/email.js: the chain of replacements, in the order of the code
fillTemplate(html, data, clock) ==
  LET h1 == ReplaceAll(html, "{{vehicleName}}", ValueText(data.vehicleName))
      h2 == ReplaceAll(h1, "{{purpose}}", ValueText(data.purpose))
      h3 == ReplaceAll(h2, "{{date}}", ValueText(data.date))
      h4 == ReplaceAll(h3, "{{email}}", ValueText(data.email))
      h5 == ReplaceAll(h4, "{{description}}", ValueText(data.description))
  IN ReplaceAll(h5, "{{currentYear}}", <<ToString(Year(clock))>>)

\* utils/email.js: templateCache.html && age < TEMPLATE_CACHE_TTL
templateFresh(cache, clock) ==
  cache.html # <<>> /\ clock - cache.lastUpdated < TEMPLATE_CACHE_TTL

\* utils/email.js: generateEmailTemplate, the HTML it returns
generateEmailTemplate_warmKeepsDescription(data, cache, clock) ==
  IF templateFresh(cache, clock)
  THEN fillTemplate(ReplaceAll(cache.html, "{{description}}", <<"D">>),
                    data, clock)
  ELSE fillTemplate(htmlTemplate, data, clock)

generateEmailTemplate(data, cache, clock) ==
  IF templateFresh(cache, clock)
  THEN fillTemplate(cache.html, data, clock)
  ELSE fillTemplate(htmlTemplate, data, clock)

\* utils/email.js: templateCache after generateEmailTemplate
templateCacheAfter(cache, clock) ==
  IF templateFresh(cache, clock) THEN cache
  ELSE [html |-> htmlTemplate, lastUpdated |-> clock]

\* utils/email.js: sendEmail composes an HTML body only
sendEmail_utils(data, cache, clock) ==
  [html |-> generateEmailTemplate(data, cache, clock), text |-> <<>>]

\* emailService.js sendInquiryEmail and the sendEmail of part_004: the
\* message is one template literal; vehicle.name is data.vehicleName here
sendInquiryEmail(data, clock) ==
  [html |->
     <<"New Service Inquiry">> \o ValueText(data.vehicleName)
     \o <<"Purpose:">> \o ValueText(data.purpose)
     \o <<"Requested Date:">> \o FormatDate(data.date)
     \o <<"Customer Email:", "mailto:">> \o ValueText(data.email)
     \o ValueText(data.email)
     \o (IF ~Falsy(data.description)
         THEN <<"Additional Details:">> \o ValueText(data.description)
         ELSE <<>>)
     \o <<"mailto:">> \o ValueText(data.email)
     \o <<"Re: Inquiry about">> \o ValueText(data.vehicleName)
     \o <<"service">> \o ValueText(data.vehicleName)
     \o <<"copyright", ToString(Year(clock))>>,
   text |->
     <<"NEW CHAUFFEUR SERVICE INQUIRY", "Vehicle:">>
     \o ValueText(data.vehicleName)
     \o <<"Purpose:">> \o ValueText(data.purpose)
     \o <<"Requested Date:">> \o FormatDate(data.date)
     \o <<"Customer Email:">> \o ValueText(data.email)
     \o (IF ~Falsy(data.description)
         THEN <<"Additional Details:">> \o ValueText(data.description)
         ELSE <<>>)
     \o <<"copyright", ToString(Year(clock))>>]

\* the message the server's composer builds
composeMessage(sv, data, cache, clock) ==
  IF sv = "idx" THEN sendEmail_utils(data, cache, clock)
  ELSE sendInquiryEmail(data, clock)

\* the state of the template cache a call finds
templateState(cache, clock) ==
  IF cache.html = <<>> THEN "cold"
  ELSE IF templateFresh(cache, clock) THEN "warm"
  ELSE "expired"

(***************************************************************************)
(* Inputs.                                                                 *)
(***************************************************************************)
\* the day the behaviour starts on; the clock starts at noon UTC
StartDay == 10

VehicleIds == {Undef, Num(1), Num(999), Str(<<"2">>)}
VehicleNames == {Undef, Str(<<"R">>)}
Purposes == {Undef, Str(<<>>), Str(<<" ">>), Str(<<"A">>)}
Dates == {Undef, Str(<<"x">>), DateStr(StartDay - 1), DateStr(StartDay),
          DateStr(StartDay + 1)}
Emails == {Undef, Str(<<" ">>), Str(<<"a", "b">>), Str(<<"a", "@", "b">>),
           Str(<<"a", "@", "b", ".", "c">>), Str(<<"a", "@", "@", "b", ".", "c">>),
           Str(<<"a", " ", "@", "b", ".", "c">>)}
Descriptions == {Undef, Str(<<"D">>)}

TokA == Token("A", 40)
TokB == Token("B", 40)
TokLong == Token("L", LONG_TOKEN_LENGTH + 1)

Body(vehicleId, vehicleName, purpose, date, email, description, captchaToken) ==
  [vehicleId |-> vehicleId, vehicleName |-> vehicleName, purpose |-> purpose,
   date |-> date, email |-> email, description |-> description,
   captchaToken |-> captchaToken]

ValidBody(token) ==
  Body(Num(1), Str(<<"R">>), Str(<<"A">>), DateStr(StartDay + 1),
       Str(<<"a", "@", "b", ".", "c">>), Str(<<"D">>), token)

\* every combination of field values, sent with a token
FieldBodies ==
  { Body(id, nm, pu, da, em, de, tk) :
      id \in VehicleIds, nm \in VehicleNames, pu \in Purposes, da \in Dates,
      em \in Emails, de \in Descriptions, tk \in {TESTING_TOKEN} }

\* a few inquiries, sent with every kind of token
GateBodies ==
  { [b EXCEPT !.captchaToken = tk] :
      b \in { ValidBody(Undef),
              [ValidBody(Undef) EXCEPT !.vehicleId = Num(999)],
              [ValidBody(Undef) EXCEPT !.vehicleId = Str(<<"2", "a", "b", "c">>)],
              [ValidBody(Undef) EXCEPT !.purpose = Undef] },
      tk \in {Undef, Str(<<>>), TESTING_TOKEN, TokA, TokLong} }

\* valid inquiries with ordinary tokens
CacheBodies == { ValidBody(tk) : tk \in {TokA, TokB} }

\* one client resubmitting its inquiry while the catalog is reloaded
CatalogBodies == { ValidBody(TokA) }

\* a client sending one inquiry after the other, each with a token it has
\* not used before (tokens of distinct lengths)
FloodBodies == { ValidBody(Token("F", 40 + Len(reqs))) }

\* the inquiries handed to the composer: with and without description,
\* two customers, a purpose that reads like a placeholder
ComposeInputs ==
  [ vehicleName : {Str(<<"R">>)},
    purpose : {Str(<<"A">>), Str(<<"{{email}}">>)},
    date : {Str(<<"2030-01-01">>)},
    email : {Str(<<"a@b.c">>), Str(<<"x@y.z">>)},
    description : {Undef, Str(<<>>), Str(<<"D">>)} ]

\* valid inquiries for yesterday, today and tomorrow
ZoneBodies ==
  { [ValidBody(TESTING_TOKEN) EXCEPT !.date = da] :
      da \in {DateStr(StartDay - 1), DateStr(StartDay), DateStr(StartDay + 1)} }

Bodies(w) ==
  IF w = "fields" THEN FieldBodies
  ELSE IF w = "zone" THEN ZoneBodies
  ELSE IF w = "gate" THEN GateBodies
  ELSE IF w = "cache" THEN CacheBodies
  ELSE IF w = "flood" THEN FloodBodies
  ELSE CatalogBodies

ReqLimit(w) ==
  IF w = "cache" THEN MaxReqs
  ELSE IF w = "catalog" THEN 2
  ELSE IF w = "flood" THEN CLEANUP_SIZE + 1
  ELSE IF w = "compose" THEN 0
  ELSE 1

\* clock advances: around the TTL of the cache the workload exercises
TickSteps(w) ==
  IF w = "cache" THEN {1, RECAPTCHA_CACHE_TTL - 1, RECAPTCHA_CACHE_TTL}
  ELSE IF w = "catalog" THEN {1, CACHE_TTL - 1, CACHE_TTL}
  ELSE IF w = "compose" THEN {1, TEMPLATE_CACHE_TTL - 1, TEMPLATE_CACHE_TTL}
  ELSE IF w = "zone" THEN {DayMs \div 4, DayMs \div 2}
  ELSE {}

Env(mode, allowTest, bypass, allowOnError, secret, email, tz) ==
  [NODE_ENV |-> mode, ALLOW_TEST_TOKEN |-> allowTest,
   BYPASS_RECAPTCHA |-> bypass, ALLOW_ON_ERROR |-> allowOnError,
   RECAPTCHA_SECRET |-> secret, EMAIL |-> email, tz |-> tz]

\* the controller's config module throws at load without secret or mail
\* credentials
EnvLoads(sv, e) == sv = "ctl" => (e.RECAPTCHA_SECRET /\ e.EMAIL)

(***************************************************************************)
(* Initial states and actions.                                             *)
(***************************************************************************)
InitFields ==
  /\ workload = "fields"
  /\ server \in {"ctl", "idx", "p4"}
  /\ \E mode \in Modes : env = Env(mode, FALSE, FALSE, FALSE, TRUE, TRUE, 0)
  /\ fileState = "ok"

\* the offsets local time - UTC of the server's time zone: six hours behind
\* UTC, UTC, six hours ahead
Zones == {-(DayMs \div 4), 0, DayMs \div 4}

InitZone ==
  /\ workload = "zone"
  /\ server \in {"ctl", "idx"}
  /\ \E mode \in Modes, tz \in Zones :
        env = Env(mode, FALSE, FALSE, FALSE, TRUE, TRUE, tz)
  /\ fileState = "ok"

InitGate ==
  /\ workload = "gate"
  /\ server \in {"ctl", "idx", "p4", "p6", "ss1", "ss2"}
  /\ \E mode \in Modes, a \in BOOLEAN, b \in BOOLEAN, c \in BOOLEAN,
        s \in BOOLEAN, m \in BOOLEAN :
        env = Env(mode, a, b, c, s, m, 0)
  /\ EnvLoads(server, env)
  /\ fileState = "ok"

InitCache ==
  /\ workload = "cache"
  /\ server = "p6"
  /\ env = Env("production", FALSE, FALSE, FALSE, TRUE, TRUE, 0)
  /\ fileState = "ok"

InitCatalog ==
  /\ workload = "catalog"
  /\ server \in {"p6", "idx"}
  /\ env = Env("production", FALSE, FALSE, FALSE, TRUE, TRUE, 0)
  /\ fileState \in FileStates

InitFlood ==
  /\ workload = "flood"
  /\ server = "p6"
  /\ env = Env("production", FALSE, FALSE, FALSE, TRUE, TRUE, 0)
  /\ fileState = "ok"

InitCompose ==
  /\ workload = "compose"
  /\ server \in {"idx", "ctl", "p4"}
  /\ env = Env("production", FALSE, FALSE, FALSE, TRUE, TRUE, 0)
  /\ fileState = "ok"

Init ==
  /\ \/ InitFields \/ InitGate \/ InitCache \/ InitCatalog \/ InitFlood
     \/ InitCompose \/ InitZone
  /\ now = StartDay * DayMs + DayMs \div 2
  /\ ticks = 0
  /\ reqs = <<>>
  /\ recaptchaCache = <<>>
  /\ vehiclesCache =
       vehiclesCacheAfterLoad([data |-> <<>>, lastUpdated |-> 0], fileState, now)
  /\ lastLoad = NoLoad
  /\ vehiclesData = startupLoad(server, fileState, now).data
  /\ startup = [loaded |-> ~startupLoad(server, fileState, now).threw,
                errorLogged |-> startupLoad(server, fileState, now).errorLogged]
  /\ health = [status |-> 0, vehiclesLoaded |-> FALSE]
  /\ templateCache = [html |-> <<>>, lastUpdated |-> 0]
  /\ composed = <<>>

\* the handler chain of the server, from the arrival of the request
Start(r) ==
  IF server = "ctl" THEN recaptchaMiddleware_ctl(r)
  ELSE IF server = "idx" THEN recaptchaMiddleware_idx(r)
  ELSE IF server = "p6" THEN recaptchaMiddleware_p6(r)
  ELSE IF server = "ss2" THEN recaptchaMiddleware_ss2(r)
  ELSE IF server = "ss1" THEN inquiry_ss1(r)
  ELSE inquiry_p4(r)

\* POST /api/inquiry arrives and runs to its first await or to its response
Receive ==
  /\ Len(reqs) < ReqLimit(workload)
  /\ workload = "flood" => \A i \in 1..Len(reqs) : reqs[i].pc = "done"
  /\ \E body \in Bodies(workload) :
       LET r == Start(NewRequest(body, now))
       IN /\ reqs' = Append(reqs, r)
          /\ recaptchaCache' = cacheAfterLookup(r)
  /\ UNCHANGED <<server, env, workload, now, ticks, vehiclesCache, fileState,
                 vehiclesData, startup, health,
                 templateCache, composed,
                 lastLoad>>

\* the external verification call of request i returns
VerifyReturn(i, out) ==
  /\ reqs[i].pc = "verifying"
  /\ LET r == [reqs[i] EXCEPT !.extResult = ExtResultOf(out), !.ext = out]
         done == IF server = "ctl" THEN verified_ctl(r, out)
                 ELSE IF server = "p6" THEN verified_p6(r, out)
                 ELSE IF server = "p4" THEN verified_p4(r, out)
                 ELSE IF server = "ss1" THEN verified_ss1(r, out)
                 ELSE verified_idx(r, out)
     IN reqs' = [reqs EXCEPT ![i] = done]
  /\ recaptchaCache' = cacheAfterReturn(reqs[i].body.captchaToken, out)
  /\ UNCHANGED <<server, env, workload, now, ticks, vehiclesCache, fileState,
                 vehiclesData, startup, health,
                 templateCache, composed,
                 lastLoad>>

\* the mail send of request i resolves (sent) or rejects
MailReturn(i, sent) ==
  /\ reqs[i].pc = "sending"
  /\ LET r == [reqs[i] EXCEPT !.mailResult = IF sent THEN "ok" ELSE "rejected"]
         done == IF server = "ctl" THEN mailed_ctl(r, sent)
                 ELSE IF server = "p4" THEN mailed_p4(r, sent)
                 ELSE IF server = "ss1" THEN mailed_ss1(r, sent)
                 ELSE mailed_idx(r, sent)
     IN reqs' = [reqs EXCEPT ![i] = done]
  /\ UNCHANGED <<server, env, workload, now, ticks, recaptchaCache,
                 vehiclesCache, fileState,
                 vehiclesData, startup, health,
                 templateCache, composed, lastLoad>>

\* time passes
Tick(d) ==
  /\ ticks < MaxTicks
  /\ now' = now + d
  /\ ticks' = ticks + 1
  /\ UNCHANGED <<server, env, workload, reqs, recaptchaCache, vehiclesCache,
                 fileState,
                 vehiclesData, startup, health,
                 templateCache, composed, lastLoad>>

\* a call of loadVehiclesData
LoadVehicles ==
  /\ server = "p6"
  /\ workload = "catalog"
  /\ lastLoad' = loadVehiclesData(vehiclesCache, fileState, now)
  /\ vehiclesCache' = vehiclesCacheAfterLoad(vehiclesCache, fileState, now)
  /\ UNCHANGED <<server, env, workload, now, ticks, reqs, recaptchaCache,
                 fileState,
                 vehiclesData, startup, health,
                 templateCache, composed>>

\* GET /health arrives at the running server
Health ==
  /\ workload = "catalog"
  /\ startup.loaded
  /\ health.status = 0
  /\ health' = healthCheck(vehiclesData)
  /\ UNCHANGED <<server, env, workload, now, ticks, reqs, recaptchaCache,
                 vehiclesCache, fileState, lastLoad, vehiclesData, startup,
                 templateCache, composed>>

\* the composer of the server builds the message of an inquiry
Compose(data) ==
  /\ workload = "compose"
  /\ Len(composed) < MaxCompose
  /\ composed' = Append(composed,
       [data |-> data, year |-> Year(now),
        found |-> IF server = "idx" THEN templateState(templateCache, now)
                  ELSE "none",
        message |-> composeMessage(server, data, templateCache, now)])
  /\ templateCache' = IF server = "idx"
                      THEN templateCacheAfter(templateCache, now)
                      ELSE templateCache
  /\ UNCHANGED <<server, env, workload, now, ticks, reqs, recaptchaCache,
                 vehiclesCache, fileState, lastLoad, vehiclesData, startup,
                 health>>

Next ==
  \/ Receive
  \/ \E i \in 1..Len(reqs), out \in Outcomes(workload) : VerifyReturn(i, out)
  \/ \E i \in 1..Len(reqs), sent \in BOOLEAN : MailReturn(i, sent)
  \/ \E d \in TickSteps(workload) : Tick(d)
  \/ LoadVehicles
  \/ Health
  \/ \E data \in ComposeInputs : Compose(data)

Spec == Init /\ [][Next]_vars

\* the deployments in which requests are served: one request per server and
\* configuration, or two requests of one client in flight together
LiveInit ==
  /\ Init
  /\ \/ workload = "gate"
     \/ workload = "catalog" /\ fileState = "ok"

\* the steps of the requests, and the passing of time
LiveNext ==
  \/ Receive
  \/ \E i \in 1..Len(reqs), out \in Outcomes(workload) : VerifyReturn(i, out)
  \/ \E i \in 1..Len(reqs), sent \in BOOLEAN : MailReturn(i, sent)
  \/ \E d \in TickSteps(workload) : Tick(d)

\* every external verification call and every mail send eventually
\* resolves or rejects
CallsReturn ==
  \A i \in 1..MaxReqs :
    /\ WF_vars(/\ i \in 1..Len(reqs)
               /\ \E out \in Outcomes(workload) : VerifyReturn(i, out))
    /\ WF_vars(/\ i \in 1..Len(reqs)
               /\ \E sent \in BOOLEAN : MailReturn(i, sent))

FairSpec == LiveInit /\ [][LiveNext]_vars /\ CallsReturn

(***************************************************************************)
(* Properties.                                                             *)
(***************************************************************************)
ReqIds == 1..Len(reqs)

\* the request was accepted: answered 200, or an email was handed to the
\* mail transport for it
Accepted(r) == r.status = 200 \/ r.mailCalls > 0

\* the gate was passed on a success reported by the verification service,
\* directly or through a fresh cache entry
VerifiedByService(r) == r.extResult = "ok" \/ r.gate = "cached"

\* C1: on the servers that answer with an emailSent flag or through the
\* controller, a request that got as far as the mail send is answered 200
\* with success=true whatever the send does: emailSent=false when the send
\* rejects (never 500), emailSent=true when it resolves.
C1_MailFailureDoesNotFailRequest ==
  \A i \in ReqIds :
    (/\ server \in {"p4", "ctl"}
     /\ reqs[i].pc = "done"
     /\ reqs[i].mailCalls = 1)
    => /\ reqs[i].mailResult = "rejected"
          => (/\ reqs[i].status = 200
              /\ reqs[i].success = "true"
              /\ reqs[i].emailSent = "false")
       /\ reqs[i].mailResult = "ok"
          => (/\ reqs[i].status = 200
              /\ reqs[i].emailSent = "true")

\* C2: in production with BYPASS_RECAPTCHA and ALLOW_ON_ERROR unset, a
\* request is accepted only if the verification service reported success
\* for its token, or it carried the testing token with ALLOW_TEST_TOKEN set.
C2_NoUnverifiedAcceptInProduction ==
  \A i \in ReqIds :
    (/\ server \in {"idx", "p4", "p6"}
     /\ isProduction(env)
     /\ ~env.BYPASS_RECAPTCHA
     /\ ~env.ALLOW_ON_ERROR
     /\ Accepted(reqs[i]))
    => \/ VerifiedByService(reqs[i])
       \/ (reqs[i].body.captchaToken = TESTING_TOKEN /\ env.ALLOW_TEST_TOKEN)

\* C3: in production a request without captchaToken is answered 400
\* 'reCAPTCHA token is required'; the inquiry handler is not run and the
\* verification service is not called.
C3_MissingTokenRejected ==
  \A i \in ReqIds :
    (/\ server \in {"idx", "ctl"}
     /\ isProduction(env)
     /\ reqs[i].body.captchaToken = Undef)
    => /\ reqs[i].pc = "done"
       /\ reqs[i].status = 400
       /\ reqs[i].message = "reCAPTCHA token is required"
       /\ ~reqs[i].handlerRan
       /\ reqs[i].extCalls = 0
       /\ reqs[i].mailCalls = 0

\* C3 witness: such a request was received and answered 400.
C3_Witness ==
  \E i \in ReqIds :
    /\ server \in {"idx", "ctl"}
    /\ isProduction(env)
    /\ reqs[i].body.captchaToken = Undef
    /\ reqs[i].status = 400

\* C4: a request carrying TESTING_TOKEN passes the gate without an external
\* call only in development or test mode or with ALLOW_TEST_TOKEN set
\* (BYPASS_RECAPTCHA, which skips the call for every token, set aside); in
\* production without the flag it is rejected when its verification fails.
C4_TestTokenOnlyWhenAllowed ==
  \A i \in ReqIds :
    (/\ server \in {"idx", "ctl", "ss2"}
     /\ reqs[i].body.captchaToken = TESTING_TOKEN
     /\ ~env.BYPASS_RECAPTCHA)
    => /\ (reqs[i].handlerRan /\ reqs[i].extCalls = 0)
          => (DevOrTest(env) \/ env.ALLOW_TEST_TOKEN)
       /\ (/\ isProduction(env) /\ ~env.ALLOW_TEST_TOKEN
           /\ reqs[i].extResult \in {"fail", "error"})
          => reqs[i].gate = "rejected"

SequentialCalls(i, j) ==
  /\ server = "p6"
  /\ i \in reqs[j].after
  /\ reqs[i].verifyCalled /\ reqs[j].verifyCalled
  /\ reqs[i].body.captchaToken = reqs[j].body.captchaToken
  /\ reqs[j].t0 - reqs[i].t0 < RECAPTCHA_CACHE_TTL

C6_NoStaleServe ==
  /\ \A i \in ReqIds :
       /\ reqs[i].cacheHit => reqs[i].servedAge <= RECAPTCHA_CACHE_TTL
       /\ reqs[i].foundStale => (~reqs[i].cacheHit /\ reqs[i].extCalls = 1)
  /\ lastLoad.fromCache => lastLoad.age <= CACHE_TTL
  /\ lastLoad.foundStale => (~lastLoad.fromCache /\ lastLoad.reads = 1)

\* C6 witness: a request found the entry of its token stale and called the
\* service once, and a catalog load found the cached catalog stale and read
\* the file once.
C6_Witness ==
  /\ \E i \in ReqIds : reqs[i].foundStale /\ reqs[i].extCalls = 1
  /\ lastLoad.foundStale /\ lastLoad.reads = 1

\* the first of vehicleId, purpose, date, email that is missing
FirstMissing(b) ==
  IF Falsy(b.vehicleId) THEN "vehicleId"
  ELSE IF Blank(b.purpose) THEN "purpose"
  ELSE IF Falsy(b.date) THEN "date"
  ELSE IF Blank(b.email) THEN "email"
  ELSE "none"

\* the error message that names a missing field
RequiredMessage(f) ==
  IF f = "vehicleId" THEN "Vehicle ID is required"
  ELSE IF f = "purpose" THEN "Purpose is required"
  ELSE IF f = "date" THEN "Date is required"
  ELSE "Email is required"

\* C7: an inquiry missing one of vehicleId, purpose, date, email is
\* rejected 400 with the message naming exactly the first missing field.
C7_FirstMissingFieldReported ==
  \A i \in ReqIds :
    (/\ server \in {"ctl", "p4"}
     /\ reqs[i].handlerRan
     /\ FirstMissing(reqs[i].body) # "none")
    => /\ reqs[i].status = 400
       /\ reqs[i].message = RequiredMessage(FirstMissing(reqs[i].body))

\* every field other than email is acceptable to every validator
OtherFieldsValid(r) ==
  /\ ~Falsy(r.body.vehicleId) /\ ~Falsy(r.body.vehicleName)
  /\ ~Blank(r.body.purpose) /\ ~Falsy(r.body.description)
  /\ ~NewDate(r.body.date).nan /\ ~IsPast(r.body.date, r.ranAt, env.tz)

\* the submitted emails that do not have the form local@domain.tld: blank,
\* no at-sign, no dot after the at-sign, two at-signs, an inner space
MalformedEmails ==
  {Str(<<" ">>), Str(<<"a", "b">>), Str(<<"a", "@", "b">>),
   Str(<<"a", "@", "@", "b", ".", "c">>), Str(<<"a", " ", "@", "b", ".", "c">>)}

\* the email is a value that does not match the syntax pattern
BadEmail(b) == b.email \in MalformedEmails

\* C8 as stated: a non-matching email fails validation with InvalidEmail,
\* whatever the other fields are.
C8_InvalidEmailRegardless ==
  \A i \in ReqIds :
    (/\ server \in {"ctl", "idx", "p4"}
     /\ reqs[i].handlerRan
     /\ BadEmail(reqs[i].body))
    => /\ reqs[i].status = 400
       /\ reqs[i].message = "Invalid email format"

\* C8 amended: a non-matching email always fails validation with status
\* 400 and no email is sent; the error is InvalidEmail when the email is
\* not blank and the other fields are valid, otherwise it is the error of
\* the first failing check.
C8_InvalidEmailWhenOthersValid ==
  \A i \in ReqIds :
    (/\ server \in {"ctl", "idx", "p4"}
     /\ reqs[i].handlerRan
     /\ BadEmail(reqs[i].body))
    => /\ reqs[i].pc = "done"
       /\ reqs[i].status = 400
       /\ ~reqs[i].validated
       /\ reqs[i].mailCalls = 0
       /\ (~Blank(reqs[i].body.email) /\ OtherFieldsValid(reqs[i]))
          => reqs[i].message = "Invalid email format"

\* C8 witness: an inquiry valid but for its non-blank malformed email was
\* validated and answered InvalidEmail.
C8_Witness ==
  \E i \in ReqIds :
    /\ reqs[i].handlerRan
    /\ BadEmail(reqs[i].body)
    /\ ~Blank(reqs[i].body.email)
    /\ OtherFieldsValid(reqs[i])
    /\ reqs[i].status = 400
    /\ reqs[i].message = "Invalid email format"

\* the inquiry is valid but for its date, which parses and is before
\* midnight of the day the handler ran on
PastDateOnly(r) ==
  /\ ~Falsy(r.body.vehicleId) /\ ~Falsy(r.body.vehicleName)
  /\ ~Blank(r.body.purpose) /\ ~Falsy(r.body.description)
  /\ emailRegexTest(r.body.email)
  /\ IsPast(r.body.date, r.ranAt, env.tz)

PassesFieldValidation(b) ==
  IF server = "ctl" THEN validateInquiryData(b, env, now).ok
  ELSE IF server = "p4" THEN validateInline(b).ok
  ELSE validateIndex(b, env, now).ok

\* C10: an inquiry that passes field validation and names no catalog
\* vehicle is answered 404, whatever its token, and no email is sent.
C10_UnknownVehicleIs404 ==
  \A i \in ReqIds :
    (/\ server \in {"ctl", "p4"}
     /\ reqs[i].pc = "done"
     /\ PassesFieldValidation(reqs[i].body)
     /\ findVehicle(reqs[i].body.vehicleId) = 0)
    => /\ reqs[i].status = 404
       /\ reqs[i].mailCalls = 0

\* the result of the field checks of the server's handler on a body
fieldChecks(b) ==
  IF server = "ctl" THEN validateInquiryData(b, env, now)
  ELSE IF server = "p4" THEN validateInline(b)
  ELSE validateIndex(b, env, now)

\* C11: field validation is the first step of the pipeline: for an inquiry
\* that fails field validation the external verification service is never
\* called, no vehicle is looked up, no email is sent, and the response is
\* the validation error.
C11_ValidationFailureEndsRequest ==
  \A i \in ReqIds :
    (/\ server \in {"ctl", "idx"}
     /\ workload \in {"fields", "gate"}
     /\ ~fieldChecks(reqs[i].body).ok)
    => /\ reqs[i].extCalls = 0
       /\ reqs[i].vehicle = 0
       /\ reqs[i].mailCalls = 0
       /\ reqs[i].pc = "done"
       /\ reqs[i].status = fieldChecks(reqs[i].body).status
       /\ reqs[i].message = fieldChecks(reqs[i].body).message

\* C12: a network failure of the external verification call is a failed
\* verification: the request is rejected by the gate with status 400, it is
\* not answered 500 and it is not accepted.
C12_NetworkFailureRejectedAs400 ==
  \A i \in ReqIds :
    (/\ server \in {"ctl", "p6", "p4"}
     /\ ~env.ALLOW_ON_ERROR
     /\ reqs[i].extResult = "error")
    => /\ reqs[i].pc = "done"
       /\ reqs[i].gate = "rejected"
       /\ reqs[i].status = 400
       /\ ~reqs[i].handlerRan \/ server = "p4"
       /\ reqs[i].mailCalls = 0

\* C13: a request whose verification response carries a score below the
\* threshold is rejected with status 400, even though the response's
\* success flag is true, and never reaches the mail send (on the servers
\* with a gate middleware, the inquiry handler).
C13_LowScoreRejected ==
  \A i \in ReqIds :
    (/\ server \in {"ctl", "p6", "ss1"}
     /\ ~env.ALLOW_ON_ERROR
     /\ reqs[i].pc # "verifying"
     /\ reqs[i].ext.kind = "response"
     /\ reqs[i].ext.hasScore
     /\ reqs[i].ext.score < SCORE_THRESHOLD)
    => /\ reqs[i].pc = "done"
       /\ reqs[i].gate = "rejected"
       /\ reqs[i].status = 400
       /\ reqs[i].mailCalls = 0
       /\ server # "ss1" => ~reqs[i].handlerRan

\* C14: on the inquiry route, whose expected action is 'vehicleInquiry', a
\* verification response that reports a different action is rejected with
\* status 400 and the inquiry handler does not run; the error is the action
\* mismatch when the response passed the success and score checks.
C14_ActionMismatchRejected ==
  \A i \in ReqIds :
    (/\ server = "ctl"
     /\ reqs[i].pc # "verifying"
     /\ reqs[i].ext.kind = "response"
     /\ reqs[i].ext.action \notin {"", "vehicleInquiry"})
    => /\ reqs[i].pc = "done"
       /\ reqs[i].gate = "rejected"
       /\ reqs[i].status = 400
       /\ ~reqs[i].handlerRan
       /\ reqs[i].mailCalls = 0
       /\ (reqs[i].ext.success /\ reqs[i].ext.score >= SCORE_THRESHOLD)
          => reqs[i].message = "reCAPTCHA action mismatch"

\* C14 witness: the service answered success with a passing score and the
\* action 'homepage', and the request was answered with the mismatch error.
C14_Witness ==
  \E i \in ReqIds :
    /\ server = "ctl"
    /\ reqs[i].ext.kind = "response"
    /\ reqs[i].ext.success
    /\ reqs[i].ext.score >= SCORE_THRESHOLD
    /\ reqs[i].ext.action = "homepage"
    /\ reqs[i].status = 400
    /\ reqs[i].message = "reCAPTCHA action mismatch"
    /\ ~reqs[i].handlerRan

\* the external call of request i returns in this step
CallReturns(i) ==
  server = "p6" /\ reqs[i].pc = "verifying" /\ reqs'[i].pc # "verifying"

\* after the step the cache holds, under the token of request i, a fresh
\* entry whose value is the boolean verifyRecaptcha returned
StoredVerdict(i) ==
  LET token == reqs[i].body.captchaToken
  IN /\ reqs'[i].verdict \in {"true", "false"}
     /\ token \in DOMAIN recaptchaCache'
     /\ recaptchaCache'[token].valid = (reqs'[i].verdict = "true")
     /\ cacheFresh(recaptchaCache'[token], now')

\* a later submission of the token of request i within the TTL is answered
\* from the cache
RepeatServedFromCache ==
  \A i \in ReqIds, j \in ReqIds :
    (SequentialCalls(i, j) /\ reqs[i].extResult \in {"ok", "fail"})
    => (reqs[j].cacheHit /\ reqs[j].extCalls = 0)

C16_CacheBounded == Cardinality(DOMAIN recaptchaCache) <= CLEANUP_SIZE

\* C17: an exception that reaches the boundary of the pipeline without a
\* client status code (a rejected mail send, a failed verification call)
\* is answered 500, and in production mode the body of a 500 response
\* carries no internal detail (message, cause or stack of the exception).
C17_No500DetailInProduction ==
  \A i \in ReqIds :
    (/\ server \in {"ctl", "idx"}
     /\ reqs[i].pc = "done")
    => /\ reqs[i].mailResult = "rejected" => reqs[i].status = 500
       /\ (reqs[i].status = 500 /\ isProduction(env)) => reqs[i].exposed = {}

\* C18: loading the vehicle catalog never throws: the server module loads
\* whatever the state of the data file; when the file is missing or cannot
\* be parsed the condition is logged and the catalog is the empty list;
\* GET /health answers 200 and its vehiclesLoaded is true exactly when the
\* loaded catalog is non-empty, so false for a missing or corrupt file.
C18_CatalogLoadNeverThrows ==
  (server \in {"idx", "p6"}) =>
    /\ startup.loaded
    /\ ~lastLoad.threw
    /\ fileState \in {"missing", "corrupt"}
         => (startup.errorLogged /\ vehiclesData = <<>>)
    /\ health.status # 0
         => /\ health.status = 200
            /\ health.vehiclesLoaded = (FileData(fileState) # <<>>)
            /\ health.vehiclesLoaded = (vehiclesData # <<>>)

\* C18 witness: the server started on a data file that cannot be parsed
\* and answered GET /health with 200 and vehiclesLoaded=false.
C18_Witness ==
  /\ server = "idx"
  /\ fileState = "corrupt"
  /\ startup.loaded /\ startup.errorLogged
  /\ vehiclesData = <<>>
  /\ health.status = 200
  /\ ~health.vehiclesLoaded

ComposedIds == 1..Len(composed)

\* the tokens of a text, and the tokens of the field values of an inquiry
Tokens(text) == {text[k] : k \in 1..Len(text)}
ValueTokens(data) == UNION {Tokens(ValueText(data[f])) : f \in DOMAIN data}

\* C19: composing twice with identical input in the same year yields
\* identical output, whether the template cache was cold, warm or expired
\* at either call, and the output for one inquiry contains no field value
\* of an inquiry composed before it.
C19_ComposeIdempotent ==
  \A i \in ComposedIds, j \in ComposedIds :
    /\ (composed[i].data = composed[j].data
        /\ composed[i].year = composed[j].year)
       => composed[i].message = composed[j].message
    /\ i < j
       => \A tok \in ValueTokens(composed[i].data)
                       \ ValueTokens(composed[j].data) :
            tok \notin Tokens(composed[j].message.html)
                         \cup Tokens(composed[j].message.text)

\* C19 witness: generateEmailTemplate composed the same inquiry on a cold
\* and then on a warm template cache and returned the same HTML.
C19_Witness ==
  /\ server = "idx"
  /\ Len(composed) = 2
  /\ composed[1].found = "cold"
  /\ composed[2].found = "warm"
  /\ composed[1].data = composed[2].data
  /\ composed[1].message.html = composed[2].message.html
  /\ "x@y.z" \in Tokens(composed[2].message.html)

\* C20: for an inquiry without description (absent or empty) the composed
\* message has no description section: neither the HTML nor the plain-text
\* body contains the 'Additional Details' label or the literal 'undefined'.
C20_NoDescriptionSection ==
  \A i \in ComposedIds :
    Falsy(composed[i].data.description)
    => LET all == Tokens(composed[i].message.html)
                    \cup Tokens(composed[i].message.text)
       IN "Additional Details:" \notin all /\ "undefined" \notin all

\* C21: an inquiry with an existing vehicleId, a non-blank purpose, a
\* future date, a valid email, the test token passing the gate without a
\* verification call, and an absent or empty description is accepted with
\* 200 and success=true when the mail send does not fail: description is
\* not a required field.
C21_DescriptionOptional ==
  \A i \in ReqIds :
    LET b == reqs[i].body
    IN (/\ server \in {"idx", "p4", "ctl"}
        /\ findVehicle(b.vehicleId) # 0
        /\ ~Blank(b.purpose)
        /\ b.date = DateStr(StartDay + 1)
        /\ b.email = Str(<<"a", "@", "b", ".", "c">>)
        /\ Falsy(b.description)
        /\ b.captchaToken = TESTING_TOKEN
        /\ reqs[i].handlerRan
        /\ reqs[i].extCalls = 0
        /\ reqs[i].pc = "done"
        /\ reqs[i].mailResult # "rejected")
       => /\ reqs[i].status = 200
          /\ reqs[i].success = "true"

\* C22: in development or test mode the reCAPTCHA middleware passes every
\* inquiry on to the handler without calling the external verification
\* service, whether or not the request carries a captchaToken.
C22_DevAndTestBypassGate ==
  \A i \in ReqIds :
    (/\ server \in {"idx", "ctl"}
     /\ DevOrTest(env))
    => /\ reqs[i].handlerRan
       /\ reqs[i].extCalls = 0
       /\ reqs[i].gate # "rejected"

\* C23: in production mode a request whose token the verification service
\* answered with success=false is answered 400 'reCAPTCHA verification
\* failed'; the service was called exactly once for it, the inquiry handler
\* did not run and no email was sent.
C23_RejectedTokenIs400 ==
  \A i \in ReqIds :
    (/\ server = "idx"
     /\ isProduction(env)
     /\ reqs[i].extResult = "fail")
    => /\ reqs[i].pc = "done"
       /\ reqs[i].status = 400
       /\ reqs[i].message = "reCAPTCHA verification failed"
       /\ reqs[i].extCalls = 1
       /\ env.RECAPTCHA_SECRET
       /\ ~reqs[i].handlerRan
       /\ reqs[i].mailCalls = 0

\* C23 witness: index.js in production called the service once for an
\* ordinary token, the service answered success=false, and the request was
\* answered 400 without running the handler.
C23_Witness ==
  \E i \in ReqIds :
    /\ server = "idx"
    /\ isProduction(env)
    /\ reqs[i].body.captchaToken = TokA
    /\ reqs[i].extResult = "fail"
    /\ reqs[i].extCalls = 1
    /\ reqs[i].status = 400
    /\ reqs[i].message = "reCAPTCHA verification failed"
    /\ ~reqs[i].handlerRan

\* the date field is one of the date strings YYYY-MM-DD
ParsableDate(b) == b.date.t = "date"

\* the date is the day before the day the request is validated on
DayBefore(b) == b.date = DateStr(StartDay - 1)

\* the error the claimed order of checks reports: vehicleId, purpose, date
\* present, date parses, email non-blank, email syntax, date not in the past
ErrorInClaimedOrder(b) ==
  IF Falsy(b.vehicleId) THEN "Vehicle ID is required"
  ELSE IF Blank(b.purpose) THEN "Purpose is required"
  ELSE IF Falsy(b.date) THEN "Date is required"
  ELSE IF ~ParsableDate(b) THEN "Invalid date format"
  ELSE IF Blank(b.email) THEN "Email is required"
  ELSE IF b.email \in MalformedEmails THEN "Invalid email format"
  ELSE IF DayBefore(b) /\ env.NODE_ENV # "development"
       THEN "Date must be in the future"
  ELSE "none"

\* the same with the date parsed after the email checks
ErrorWithDateParsedLast(b) ==
  IF Falsy(b.vehicleId) THEN "Vehicle ID is required"
  ELSE IF Blank(b.purpose) THEN "Purpose is required"
  ELSE IF Falsy(b.date) THEN "Date is required"
  ELSE IF Blank(b.email) THEN "Email is required"
  ELSE IF b.email \in MalformedEmails THEN "Invalid email format"
  ELSE IF ~ParsableDate(b) THEN "Invalid date format"
  ELSE IF DayBefore(b) /\ env.NODE_ENV # "development"
       THEN "Date must be in the future"
  ELSE "none"

\* C24 as stated: the validator reports the error of the first failing
\* check in the order vehicleId present, purpose non-blank, date present,
\* date parses, email non-blank, email syntax, date not in the past.
C24_ChecksInClaimedOrder ==
  \A i \in ReqIds :
    (/\ server = "ctl"
     /\ workload = "fields"
     /\ reqs[i].handlerRan
     /\ ErrorInClaimedOrder(reqs[i].body) # "none")
    => /\ reqs[i].status = 400
       /\ reqs[i].message = ErrorInClaimedOrder(reqs[i].body)

\* C24 amended: the validator reports the error of the first failing check
\* in the order vehicleId present, purpose non-blank, date present, email
\* non-blank, email syntax, date parses, date not in the past; an inquiry
\* that passes every check is validated.
C24_ChecksDateParsedLast ==
  \A i \in ReqIds :
    (/\ server = "ctl"
     /\ workload = "fields"
     /\ reqs[i].handlerRan)
    => IF ErrorWithDateParsedLast(reqs[i].body) # "none"
       THEN /\ reqs[i].status = 400
            /\ reqs[i].message = ErrorWithDateParsedLast(reqs[i].body)
            /\ ~reqs[i].validated
       ELSE reqs[i].validated

\* C24 witness: an inquiry with all fields present, an unparsable date and
\* a malformed email was rejected with 'Invalid email format'.
C24_Witness ==
  \E i \in ReqIds :
    /\ server = "ctl"
    /\ reqs[i].handlerRan
    /\ ~Falsy(reqs[i].body.vehicleId) /\ ~Blank(reqs[i].body.purpose)
    /\ reqs[i].body.date = Str(<<"x">>)
    /\ reqs[i].body.email = Str(<<"a", "@", "b">>)
    /\ reqs[i].status = 400
    /\ reqs[i].message = "Invalid email format"

\* the calendar day of the clock in the server's local time
LocalDay(clock, tz) == (clock + tz) \div DayMs

\* the handler of request i validates the fields in this step
ValidatesNow(i) ==
  /\ i \in 1..Len(reqs')
  /\ reqs'[i].handlerRan
  /\ (i \in 1..Len(reqs) => ~reqs[i].handlerRan)

\* C25: an inquiry whose date is today's calendar date in the server's
\* local time is never rejected as being in the past, at any time of day
\* and for any UTC offset of the server's time zone.
C25_TodayNeverPast ==
  [][\A i \in 1..Len(reqs') :
       (/\ ValidatesNow(i)
        /\ server \in {"ctl", "idx"}
        /\ reqs'[i].body.date = DateStr(LocalDay(now, env.tz)))
       => reqs'[i].message # "Date must be in the future"]_vars

\* request i arrives in this step
Arrives(i) == Len(reqs') = Len(reqs) + 1 /\ i = Len(reqs')

\* C26: in the verification cache and in the vehicle catalog cache an entry
\* is stale exactly when now - cachedAt > ttl: a lookup that finds an entry
\* of an age up to and including the ttl is served from the cache, a lookup
\* that finds an older one is not.
C26_StaleExactlyWhenOlderThanTTL ==
  [][/\ \A i \in 1..Len(reqs') :
          (/\ Arrives(i)
           /\ server = "p6"
           /\ reqs'[i].verifyCalled
           /\ env.RECAPTCHA_SECRET
           /\ reqs'[i].body.captchaToken \in DOMAIN recaptchaCache)
          => (reqs'[i].cacheHit
                <=> ~(now - recaptchaCache[reqs'[i].body.captchaToken].timestamp
                        > RECAPTCHA_CACHE_TTL))
     /\ (/\ lastLoad' # lastLoad
         /\ Len(vehiclesCache.data) > 0)
        => (lastLoad'.fromCache
              <=> ~(now - vehiclesCache.lastUpdated > CACHE_TTL))]_vars

C28_ExactlyOneResponse ==
  /\ \A i \in 1..MaxReqs :
       (i \in ReqIds) ~> (i \in ReqIds /\ reqs[i].pc = "done"
                          /\ reqs[i].responses = 1)
  /\ [](\A i \in ReqIds :
          reqs[i].responses = (IF reqs[i].pc = "done" THEN 1 ELSE 0))
  /\ [][\A i \in ReqIds : reqs[i].pc = "done" => reqs'[i] = reqs[i]]_vars

\* C28 witness: two requests were in flight together, the second arrived
\* while the first awaited its verification, and each has been answered
\* once, the first only after its mail send was rejected.
C28_Witness ==
  \E i, j \in ReqIds :
    /\ i < j /\ i \notin reqs[j].after
    /\ reqs[i].pc = "done" /\ reqs[i].responses = 1
    /\ reqs[i].mailResult = "rejected"
    /\ reqs[j].pc = "done" /\ reqs[j].responses = 1

\* the external call of request i has returned a response of the service
Reported(i) == reqs[i].ext.kind = "response"

\* the external call of request i returns in this step
ReturnsNow(i) ==
  /\ i \in ReqIds
  /\ reqs[i].pc = "verifying"
  /\ reqs'[i].pc # "verifying"

\* C29: under every interleaving of verifications of the same or different
\* tokens, the validity of every entry of the verification cache is the
\* success flag the service reported to some returned call for that token,
\* and when a call returns with a response the entry of its token holds
\* that response's flag (last write wins) while the entries of the other
\* tokens are not rewritten; a call that fails stores nothing.
C29_CacheHoldsReportedVerdicts ==
  /\ [](\A tk \in DOMAIN recaptchaCache :
          \E i \in ReqIds :
            /\ reqs[i].body.captchaToken = tk
            /\ Reported(i)
            /\ reqs[i].ext.success = recaptchaCache[tk].valid)
  /\ [][\A i \in ReqIds :
          (server = "p6" /\ ReturnsNow(i))
          => LET tk == reqs[i].body.captchaToken
             IN /\ Reported(i)'
                   => /\ tk \in DOMAIN recaptchaCache'
                      /\ recaptchaCache'[tk] =
                           [valid |-> reqs'[i].ext.success, timestamp |-> now]
                /\ ~Reported(i)' => recaptchaCache' = recaptchaCache
                /\ \A k \in (DOMAIN recaptchaCache') \ {tk} :
                     /\ k \in DOMAIN recaptchaCache
                     /\ recaptchaCache'[k] = recaptchaCache[k]]_vars

\* C29 witness: two calls for one token were in flight together, the
\* service reported success to the first request and failure to the second,
\* and the cache holds one entry for the token, with the failure.
C29_Witness ==
  \E i, j \in ReqIds :
    /\ server = "p6"
    /\ i < j /\ i \notin reqs[j].after
    /\ reqs[i].body.captchaToken = reqs[j].body.captchaToken
    /\ Reported(i) /\ reqs[i].ext.success
    /\ Reported(j) /\ ~reqs[j].ext.success
    /\ reqs[i].body.captchaToken \in DOMAIN recaptchaCache
    /\ ~recaptchaCache[reqs[i].body.captchaToken].valid

\* the submitted vehicleId denotes exactly the number k of a catalog entry:
\* the number itself or its decimal numeral
DenotesExactly(v, k) ==
  \/ v = Num(k)
  \/ v.t = "str" /\ v.s = <<Digits[k + 1]>>

\* C30: the vehicle lookup resolves a vehicleId to vehicle v only if the
\* vehicleId denotes exactly the number v.id; every other input, a string
\* that merely begins with a valid id included, is not resolved.
C30_ResolvedOnlyByExactId ==
  \A i \in ReqIds :
    (server \in {"ctl", "p4"} /\ reqs[i].vehicle # 0)
    => DenotesExactly(reqs[i].body.vehicleId, reqs[i].vehicle)

====
